---- MODULE Spec2Model ----
(***************************************************************************)
(* Model of recipe_server.py: the collection files                         *)
(* recipes/<dish_safe>/recipes_info.json, the index file                   *)
(* recipes/recipe_index.json, and the tools search_recipes and             *)
(* get_recipe_details with the helpers _build_recipe_index and             *)
(* _load_recipe_index.  One action per tool call; the directory            *)
(* enumeration order of Path.iterdir() is a nondeterministic input.        *)
(***************************************************************************)
EXTENDS Integers, Sequences, FiniteSets, TLC

\* ----------------------------------------------------------------- bounds
\* Recipe ids are "1" .. "NumIds" (idMeal of the remote source).
NumIds == 2
\* The remote source answers with at most MaxMeals meals.
MaxMeals == 1
\* Tool calls and out-of-band changes per run.
MaxSteps == 3

\* ------------------------------------------------------ program constants
\* if len(dish_safe) > 200: dish_safe = dish_safe[:200]
MaxDirLen == 200

RecipeIds == 1..NumIds
\* The max_results argument ranges over 0 .. MaxMeals + 1 (one more than the
\* longest answer).
MaxResultsArgs == 0..(MaxMeals + 1)
\* The remote source's content of a recipe: as first published, or revised.
Editions == {"first", "revised"}

\* ------------------------------------------------------------ file states
\* A file is absent, holds text json.loads rejects (corrupt), cannot be read
\* (open/read raises something other than FileNotFoundError), or holds a JSON
\* object (data: a function from its keys).
NoData == [i \in {} |-> 0]
AbsentFile == [kind |-> "absent", data |-> NoData]
CorruptFile == [kind |-> "corrupt", data |-> NoData]
UnreadableFile == [kind |-> "unreadable", data |-> NoData]
JsonFile(d) == [kind |-> "json", data |-> d]

\* Path.exists() / Path.is_file()
Exists(f) == f.kind # "absent"

\* dict.update / item assignment: g's entries win over f's.
Update(f, g) ==
  [k \in (DOMAIN f) \cup (DOMAIN g) |-> IF k \in DOMAIN g THEN g[k] ELSE f[k]]

Min(a, b) == IF a < b THEN a ELSE b
Max(a, b) == IF a > b THEN a ELSE b

\* ------------------------------------------------- dish name sanitisation
\* Names are sequences of one-character strings.
InvalidChars == {"<", ">", ":", "\"", "/", "\\", "|", "?", "*"}
LowerChar(c) ==
  CASE c = "A" -> "a"
    [] c = "B" -> "b"
    [] OTHER -> c
UnknownDish == <<"u","n","k","n","o","w","n","_","d","i","s","h">>

RECURSIVE LStrip(_, _)
LStrip(s, cs) ==
  IF s # <<>> /\ Head(s) \in cs THEN LStrip(Tail(s), cs) ELSE s
RECURSIVE RStrip(_, _)
RStrip(s, cs) ==
  IF s # <<>> /\ s[Len(s)] \in cs THEN RStrip(SubSeq(s, 1, Len(s) - 1), cs) ELSE s
Strip(s, cs) == RStrip(LStrip(s, cs), cs)

DishSafe(dish_name) ==
  LET lower == [i \in 1..Len(dish_name) |-> LowerChar(dish_name[i])]
      noinv == [i \in 1..Len(lower) |->
                  IF lower[i] \in InvalidChars THEN "_" ELSE lower[i]]
      nosp == [i \in 1..Len(noinv) |-> IF noinv[i] = " " THEN "_" ELSE noinv[i]]
      strp == Strip(nosp, {".", " "})
      cut == IF Len(strp) > MaxDirLen THEN SubSeq(strp, 1, MaxDirLen) ELSE strp
      nound == SelectSeq(cut, LAMBDA c : c # "_")
  IN IF cut = <<>> \/ Strip(nound, {" "}) = <<>> THEN UnknownDish ELSE cut

\* The dish_name arguments of the model and the collection directories they
\* map to.
DishNames == { <<"A">>, <<"b", ".">> }
Dirs == { DishSafe(n) : n \in DishNames }

\* Lexicographic order of directory names (code points of the characters
\* that occur in Dirs).
CharCode(c) ==
  CASE c = "." -> 46
    [] c = "_" -> 95
    [] c = "a" -> 97
    [] c = "b" -> 98
    [] OTHER -> 120
RECURSIVE LexLess(_, _)
LexLess(s, t) ==
  IF s = <<>> THEN t # <<>>
  ELSE IF t = <<>> THEN FALSE
  ELSE IF CharCode(Head(s)) # CharCode(Head(t))
       THEN CharCode(Head(s)) < CharCode(Head(t))
  ELSE LexLess(Tail(s), Tail(t))

\* ------------------------------------------------------------------ storage
\* What can be written under recipes/: everything ("rw"), everything but the
\* index file ("index_ro"), or nothing ("ro": open(.., "w") and mkdir of a new
\* directory raise OSError).
StorageModes == {"rw", "index_ro", "ro"}
CollWritable(st) == st \in {"rw", "index_ro"}
IndexWritable(st) == st = "rw"

\* ------------------------------------------------------ _build_recipe_index
\* Path.iterdir() yields the sub-directories that hold a recipes_info.json in
\* an order the filesystem chooses.
RecipeFiles(c) == { d \in Dirs : Exists(c[d]) }
ScanOrders(c) ==
  LET S == RecipeFiles(c)
  IN { o \in [1..Cardinality(S) -> S] : \A i, j \in DOMAIN o : i # j => o[i] # o[j] }

\* process_file: the entries of one file, or no dict (an exception object in
\* the gathered results, skipped by the merge).
ProcessFile(c, d) ==
  CASE c[d].kind = "json" ->
         [isdict |-> TRUE, val |-> [id \in DOMAIN c[d].data |-> d]]
    [] c[d].kind = "unreadable" -> [isdict |-> FALSE, val |-> NoData]
    [] OTHER -> [isdict |-> TRUE, val |-> NoData]

RECURSIVE MergeResults(_, _, _)
MergeResults(index, c, order) ==
  IF order = <<>> THEN index
  ELSE LET result == ProcessFile(c, Head(order))
       IN MergeResults(IF result.isdict THEN Update(index, result.val) ELSE index,
                       c, Tail(order))

BuildRecipeIndexFailFast(c, order) ==
  IF \E i \in DOMAIN order : c[order[i]].kind # "json"
  THEN NoData ELSE MergeResults(NoData, c, order)
BuildRecipeIndex(c, order) == MergeResults(NoData, c, order)

\* ------------------------------------------------------- _load_recipe_index
\* raised: an exception leaves the function; index: the mapping returned;
\* file: the index file afterwards; rebuilt: _build_recipe_index ran;
\* wrote: the index file was written.
LoadRecipeIndexCorruptIsEmpty(idx, c, writable, order) ==
  CASE idx.kind = "json" ->
         [raised |-> FALSE, index |-> idx.data, file |-> idx,
          rebuilt |-> FALSE, wrote |-> FALSE]
    [] idx.kind = "unreadable" ->
         [raised |-> TRUE, index |-> NoData, file |-> idx,
          rebuilt |-> FALSE, wrote |-> FALSE]
    [] idx.kind = "corrupt" ->
         [raised |-> FALSE, index |-> NoData, file |-> idx,
          rebuilt |-> FALSE, wrote |-> FALSE]
    [] OTHER ->
         [raised |-> FALSE, index |-> BuildRecipeIndex(c, order),
          file |-> IF writable THEN JsonFile(BuildRecipeIndex(c, order)) ELSE idx,
          rebuilt |-> TRUE, wrote |-> writable]
LoadRecipeIndexAlwaysRebuild(idx, c, writable, order) ==
  CASE idx.kind = "unreadable" ->
         [raised |-> TRUE, index |-> NoData, file |-> idx,
          rebuilt |-> FALSE, wrote |-> FALSE]
    [] OTHER ->
         [raised |-> FALSE, index |-> BuildRecipeIndex(c, order),
          file |-> IF writable THEN JsonFile(BuildRecipeIndex(c, order)) ELSE idx,
          rebuilt |-> TRUE, wrote |-> writable]
LoadRecipeIndex(idx, c, writable, order) ==
  CASE idx.kind = "json" ->
         [raised |-> FALSE, index |-> idx.data, file |-> idx,
          rebuilt |-> FALSE, wrote |-> FALSE]
    [] idx.kind = "unreadable" ->
         [raised |-> TRUE, index |-> NoData, file |-> idx,
          rebuilt |-> FALSE, wrote |-> FALSE]
    [] OTHER ->
         LET index == BuildRecipeIndex(c, order)
         IN [raised |-> FALSE, index |-> index,
             file |-> IF writable THEN JsonFile(index) ELSE idx,
             rebuilt |-> TRUE, wrote |-> writable]

\* --------------------------------------------------------- the remote source
\* One meal of TheMealDB's answer, as far as the stored record uses it.
Meal(id, e) == [idMeal |-> id, strMeal |-> e, strArea |-> e, strCategory |-> e]
\* The answers of search.php: a transport failure (httpx.RequestError), a
\* non-success status (raise_for_status), or a JSON body whose "meals" is a
\* list of distinct recipes of one edition (empty list: "meals": null).
IdSeqs ==
  { s \in UNION { [1..n -> RecipeIds] : n \in 0..MaxMeals } :
      \A i, j \in DOMAIN s : i # j => s[i] # s[j] }
Responses ==
  { [kind |-> "request_error", meals |-> <<>>],
    [kind |-> "status_error", meals |-> <<>>] }
  \cup { [kind |-> "ok", meals |-> [i \in DOMAIN s |-> Meal(s[i], e)]] :
           s \in IdSeqs, e \in Editions }

\* meals[:max_results]
PySliceAll(s, m) == s
PySlice(s, m) ==
  IF m >= 0 THEN SubSeq(s, 1, Min(m, Len(s)))
  ELSE SubSeq(s, 1, Max(Len(s) + m, 0))

\* recipe_info of one meal (the fields the claims read).
RecipeInfo(meal) ==
  [name |-> meal.strMeal, cuisine |-> meal.strArea, category |-> meal.strCategory]
NoRecord == [name |-> "", cuisine |-> "", category |-> ""]

\* for meal in meals: recipes_info[recipe_id] = recipe_info
RECURSIVE StoreMeals(_, _)
StoreMeals(recipes_info, meals) ==
  IF meals = <<>> THEN recipes_info
  ELSE StoreMeals(Update(recipes_info,
                         [id \in {Head(meals).idMeal} |-> RecipeInfo(Head(meals))]),
                  Tail(meals))

\* ------------------------------------------------------------ search_recipes
\* recipes_info = {}; the content of the existing file when it parses.
ExistingRecipesFresh(file) == NoData
ExistingRecipes(file) == IF file.kind = "json" THEN file.data ELSE NoData

\* for recipe_id in recipe_ids: recipe_index[recipe_id] = str(file_path)
IndexWithout(recipe_index, recipe_ids, file_path) == recipe_index
IndexWith(recipe_index, recipe_ids, file_path) ==
  Update(recipe_index,
         [id \in {recipe_ids[i] : i \in DOMAIN recipe_ids} |-> file_path])

\* kind: "ids" (the list of recipe ids) or the diagnostic returned; fetched:
\* the recipe_info built for each id of the list; file: the collection file of dish_safe afterwards; index: the index file afterwards;
\* saved / indexed: the collection file / the index file was written by the
\* save block.
SearchResultSaveOrFail(kind, ids, fetched, dir, file, idx, saved, indexed, rebuilt) ==
  [kind |-> IF kind = "ids" /\ ~(saved /\ indexed) THEN "search_error" ELSE kind,
   ids |-> IF saved /\ indexed THEN ids ELSE <<>>,
   fetched |-> fetched, dir |-> dir, file |-> file,
   index |-> idx, saved |-> saved, indexed |-> indexed, rebuilt |-> rebuilt]
SearchResult(kind, ids, fetched, dir, file, idx, saved, indexed, rebuilt) ==
  [kind |-> kind, ids |-> ids, fetched |-> fetched, dir |-> dir, file |-> file,
   index |-> idx, saved |-> saved, indexed |-> indexed, rebuilt |-> rebuilt]

SearchRecipes(dish_name, max_results, resp, idx, c, st, order) ==
  LET dish_safe == DishSafe(dish_name)
      old == c[dish_safe]
      Diag(kind) == SearchResult(kind, <<>>, NoData, dish_safe, old, idx, FALSE, FALSE, FALSE)
      meals == PySlice(resp.meals, max_results)
      recipe_ids == [i \in DOMAIN meals |-> meals[i].idMeal]
      fetched == StoreMeals(NoData, meals)
      recipes_info == StoreMeals(ExistingRecipes(old), meals)
      c2 == [c EXCEPT ![dish_safe] = JsonFile(recipes_info)]
      load == LoadRecipeIndex(idx, c2, IndexWritable(st), order)
      recipe_index == IndexWith(load.index, recipe_ids, dish_safe)
  IN CASE resp.kind = "request_error" -> Diag("fetch_error")
       [] resp.kind = "status_error" -> Diag("search_error")
       [] resp.meals = <<>> -> Diag("no_recipes")
       [] ~Exists(old) /\ ~CollWritable(st) -> Diag("mkdir_error")
       [] old.kind = "unreadable" -> Diag("search_error")
       [] ~CollWritable(st) ->
            SearchResult("ids", recipe_ids, fetched, dish_safe, old, idx, FALSE, FALSE, FALSE)
       [] load.raised ->
            SearchResult("ids", recipe_ids, fetched, dish_safe, c2[dish_safe], idx,
                         TRUE, FALSE, FALSE)
       [] ~IndexWritable(st) ->
            SearchResult("ids", recipe_ids, fetched, dish_safe, c2[dish_safe], idx,
                         TRUE, FALSE, load.rebuilt)
       [] OTHER ->
            SearchResult("ids", recipe_ids, fetched, dish_safe, c2[dish_safe],
                         JsonFile(recipe_index), TRUE, TRUE, load.rebuilt)

\* -------------------------------------------------------- get_recipe_details
\* kind: "record" (json.dumps of the stored record, rec), "no_saved" ("No saved
\* information found for recipe ..."), "not_in_file" ("Recipe ... not found in
\* ...") or "error" ("Error in get_recipe_details: ..."); index: the index
\* file afterwards; rebuilds: the runs of _build_recipe_index; wrote: the
\* index file was written.
\* if not file_path.exists(): the index is stale.
IndexedFileNeverMissing(file) == FALSE
IndexedFileMissing(file) == ~Exists(file)

DetailsResult(kind, rec, idx, rebuilds, wrote) ==
  [kind |-> kind, rec |-> rec, index |-> idx, rebuilds |-> rebuilds, wrote |-> wrote]

\* A get_recipe_details that would write the index it rebuilt after a stale
\* entry back to the index file.
GetRecipeDetailsPersisting(recipe_id, idx, c, st, order1, order2) ==
  LET load == LoadRecipeIndex(idx, c, IndexWritable(st), order1)
      n1 == IF load.rebuilt THEN 1 ELSE 0
      stale == recipe_id \in DOMAIN load.index
               /\ IndexedFileMissing(c[load.index[recipe_id]])
      recipe_index == IF stale THEN BuildRecipeIndex(c, order2) ELSE load.index
      n2 == IF stale THEN n1 + 1 ELSE n1
      file == IF stale /\ IndexWritable(st) THEN JsonFile(recipe_index) ELSE load.file
      wrote == load.wrote \/ (stale /\ IndexWritable(st))
      Out(kind, rec) == DetailsResult(kind, rec, file, n2, wrote)
  IN CASE load.raised -> DetailsResult("error", NoRecord, load.file, n1, load.wrote)
       [] recipe_id \notin DOMAIN load.index ->
            DetailsResult("no_saved", NoRecord, load.file, n1, load.wrote)
       [] recipe_id \notin DOMAIN recipe_index -> Out("no_saved", NoRecord)
       [] OTHER ->
            LET f == c[recipe_index[recipe_id]]
            IN CASE f.kind # "json" -> Out("error", NoRecord)
                 [] recipe_id \in DOMAIN f.data -> Out("record", f.data[recipe_id])
                 [] OTHER -> Out("not_in_file", NoRecord)

GetRecipeDetails(recipe_id, idx, c, st, order1, order2) ==
  LET load == LoadRecipeIndex(idx, c, IndexWritable(st), order1)
      n1 == IF load.rebuilt THEN 1 ELSE 0
      stale == recipe_id \in DOMAIN load.index
               /\ IndexedFileMissing(c[load.index[recipe_id]])
      recipe_index == IF stale THEN BuildRecipeIndex(c, order2) ELSE load.index
      n2 == IF stale THEN n1 + 1 ELSE n1
      Out(kind, rec) == DetailsResult(kind, rec, load.file, n2, load.wrote)
  IN CASE load.raised -> DetailsResult("error", NoRecord, load.file, n1, load.wrote)
       [] recipe_id \notin DOMAIN load.index ->
            DetailsResult("no_saved", NoRecord, load.file, n1, load.wrote)
       [] recipe_id \notin DOMAIN recipe_index -> Out("no_saved", NoRecord)
       [] OTHER ->
            LET f == c[recipe_index[recipe_id]]
            IN CASE f.kind # "json" -> Out("error", NoRecord)
                 [] recipe_id \in DOMAIN f.data -> Out("record", f.data[recipe_id])
                 [] OTHER -> Out("not_in_file", NoRecord)

\* ---------------------------------------------------------- create_meal_plan
\* plan_safe: the same sanitisation as dish_safe, with the fallback
\* "meal_plan".
MealPlan == <<"m","e","a","l","_","p","l","a","n">>
PlanSafe(plan_name) ==
  LET lower == [i \in 1..Len(plan_name) |-> LowerChar(plan_name[i])]
      noinv == [i \in 1..Len(lower) |->
                  IF lower[i] \in InvalidChars THEN "_" ELSE lower[i]]
      nosp == [i \in 1..Len(noinv) |-> IF noinv[i] = " " THEN "_" ELSE noinv[i]]
      strp == Strip(nosp, {".", " "})
      cut == IF Len(strp) > MaxDirLen THEN SubSeq(strp, 1, MaxDirLen) ELSE strp
      nound == SelectSeq(cut, LAMBDA c : c # "_")
  IN IF cut = <<>> \/ Strip(nound, {" "}) = <<>> THEN MealPlan ELSE cut

\* The plan_name arguments of the model and the plan files they map to.
PlanNames == { <<"A", " ", "b">>, <<"?">> }
PlanFiles == { PlanSafe(n) : n \in PlanNames }

\* The recipe_ids arguments: lists of at most two ids, repeats included.
RecipeIdLists ==
  {<<>>} \cup { <<i>> : i \in RecipeIds } \cup { <<i, j>> : i, j \in RecipeIds }

\* A plan file: absent, or the meal_plan object (created_date left out).
NoPlan == [plan_name |-> <<>>, total_recipes |-> 0, recipes |-> <<>>]
AbsentPlan == [kind |-> "absent", data |-> NoPlan]
PlanFile(plan) == [kind |-> "json", data |-> plan]

\* get_recipe_data: the summary of a recipe that get_recipe_details gave as a
\* JSON record; None for every other answer ("No saved information ...",
\* "Error ...", and "Recipe ... not found in ...", which json.loads rejects).
IsSummaryUnlessNoSaved(details) == details.kind \notin {"no_saved", "error"}
IsSummary(details) == details.kind = "record"
Summary(recipe_id, details) ==
  [id |-> recipe_id, name |-> details.rec.name, cuisine |-> details.rec.cuisine,
   category |-> details.rec.category]

\* for result in results: if isinstance(result, dict): append
RECURSIVE MealPlanRecipes(_, _, _)
MealPlanRecipes(recipe_ids, details, i) ==
  IF i > Len(recipe_ids) THEN <<>>
  ELSE (IF IsSummary(details[i]) THEN <<Summary(recipe_ids[i], details[i])>> ELSE <<>>)
       \o MealPlanRecipes(recipe_ids, details, i + 1)

\* The index file after the gathered get_recipe_details tasks: each task that
\* rebuilt wrote its mapping; the file holds the one of the last writer w, or
\* a mix of two different mappings written at the same time (torn).
IndexAfterTasks(idx, details, w, torn) ==
  IF DOMAIN details = {} THEN idx
  ELSE IF torn /\ \E i, j \in DOMAIN details :
                    details[i].wrote /\ details[j].wrote
                    /\ details[i].index # details[j].index
       THEN CorruptFile
       ELSE details[w].index

\* tasks = [get_recipe_data(recipe_id) for recipe_id in recipe_ids]; gather:
\* what get_recipe_details returned for each id.  order1[i], order2[i]: the
\* directory orders task i met.
GatherDetails(recipe_ids, idx, c, st, order1, order2) ==
  [i \in DOMAIN recipe_ids |->
     GetRecipeDetails(recipe_ids[i], idx, c, st, order1[i], order2[i])]

\* kind: "created" ("Meal plan ... created successfully ...") or "plan_error"
\* ("Error creating meal plan: ..."); file: the plan file afterwards; index:
\* the index file afterwards; details: the gathered results.
CreateMealPlan(recipe_ids, plan_name, details, idx, st, old, w, torn) ==
  LET plan_safe == PlanSafe(plan_name)
      meal_plan_recipes == MealPlanRecipes(recipe_ids, details, 1)
      meal_plan == [plan_name |-> plan_name,
                    total_recipes |-> Len(meal_plan_recipes),
                    recipes |-> meal_plan_recipes]
      after == IndexAfterTasks(idx, details, w, torn)
  IN IF CollWritable(st)
     THEN [kind |-> "created", plan |-> plan_safe, file |-> PlanFile(meal_plan),
           index |-> after, details |-> details]
     ELSE [kind |-> "plan_error", plan |-> plan_safe, file |-> old,
           index |-> idx, details |-> details]

\* ---------------------------------------------------- search_by_first_letter
\* The letter arguments: one letter, two letters, a digit, nothing.
LetterArgs == { <<"A">>, <<"b">>, <<"A", "b">>, <<"1">>, <<>> }
IsAlpha(c) == c \in {"A", "B", "a", "b"}
UpperChar(c) ==
  CASE c = "a" -> "A"
    [] c = "b" -> "B"
    [] OTHER -> c
\* len(letter) != 1 or not letter.isalpha()
BadLetter(letter) == Len(letter) # 1 \/ ~IsAlpha(letter[1])
\* One summary file for every letter.
LetterKeyShared(letter) == "a"
\* letter_<letter.lower()>_search.json
LetterKey(letter) == LowerChar(letter[1])
LetterKeys == { LetterKey(l) : l \in { a \in LetterArgs : ~BadLetter(a) } }

NoSummary == [letter |-> "", found_recipes |-> 0, recipe_ids |-> <<>>, recipe_names |-> <<>>]
AbsentSummary == [kind |-> "absent", data |-> NoSummary]
SummaryFile(summary) == [kind |-> "json", data |-> summary]

\* The diagnostics of a failed or empty remote answer: httpx.RequestError has
\* its own except clause; a non-success status is caught by except Exception.
RemoteDiagnosticConflated(resp) == "no_recipes"
RemoteDiagnostic(resp) ==
  CASE resp.kind = "request_error" -> "fetch_error"
    [] resp.kind = "status_error" -> "search_error"
    [] OTHER -> "no_recipes"

\* kind: "bad_letter" ("Please provide a single letter"), a remote diagnostic,
\* "search_error" (the summary could not be written) or "ids"; key: the letter
\* of the summary file; file: that file afterwards.
SearchByFirstLetter(letter, max_results, resp, st, cur) ==
  LET meals == PySlice(resp.meals, max_results)
      recipe_ids == [i \in DOMAIN meals |-> meals[i].idMeal]
      summary == [letter |-> UpperChar(letter[1]),
                  found_recipes |-> Len(recipe_ids),
                  recipe_ids |-> recipe_ids,
                  recipe_names |-> [i \in DOMAIN meals |-> meals[i].strMeal]]
      Diag(kind, key) ==
        [kind |-> kind, ids |-> <<>>, key |-> key, file |-> cur[key], wrote |-> FALSE]
  IN CASE BadLetter(letter) ->
            [kind |-> "bad_letter", ids |-> <<>>, key |-> "",
             file |-> AbsentSummary, wrote |-> FALSE]
       [] resp.kind # "ok" \/ resp.meals = <<>> ->
            Diag(RemoteDiagnostic(resp), LetterKey(letter))
       [] ~CollWritable(st) -> Diag("search_error", LetterKey(letter))
       [] OTHER ->
            [kind |-> "ids", ids |-> recipe_ids, key |-> LetterKey(letter),
             file |-> SummaryFile(summary), wrote |-> TRUE]

\* --------------------------------------------------------- get_random_recipe
\* kind: a remote diagnostic ("No random recipe found" for no meal) or "record"
\* (json.dumps of recipe_info, with the id of the meal).
GetRandomRecipe(resp) ==
  IF resp.kind # "ok" \/ resp.meals = <<>>
  THEN [kind |-> RemoteDiagnostic(resp), id |-> 0, rec |-> NoRecord]
  ELSE [kind |-> "record", id |-> resp.meals[1].idMeal,
        rec |-> RecipeInfo(resp.meals[1])]

\* --------------------------------------------------------------------- state
\* coll[d]: recipes/<d>/recipes_info.json; index: recipes/recipe_index.json;
\* storage: what can be written; last: the last call and what it returned
\* (op, its argument dir or id, the kind of result, the ids and records of a
\* search, the record of get_recipe_details, the mapping of an index function,
\* the runs of _build_recipe_index, whether the index / the collection file was
\* written); steps: the steps taken so far; plans[p]:
\* recipes/meal_plans/<p>.json; letters[l]:
\* recipes/by_letter/letter_<l>_search.json; tasks[t]: the tool call that
\* task t of the event loop is running, with its position and its locals.
VARIABLES coll, index, storage, last, steps, plans, letters, tasks
vars == <<coll, index, storage, last, steps, plans, letters, tasks>>
\* The files and tasks that search_recipes, get_recipe_details and the index
\* functions, run as one call, leave alone.
others == <<plans, letters, tasks>>

\* remote: the kind of answer the remote source gave; plan, given: the plan
\* file and the recipe_ids of create_meal_plan; key, given: the summary file
\* and the letter of search_by_first_letter; max, given: max_results and the
\* ids of the remote answer of a search_recipes call that keeps them.
NoCall ==
  [op |-> "none", dir |-> <<>>, id |-> 0, kind |-> "", ids |-> <<>>,
   fetched |-> NoData, rec |-> NoRecord, map |-> NoData, rebuilds |-> 0,
   wrote |-> FALSE, saved |-> FALSE, remote |-> "", plan |-> <<>>,
   given |-> <<>>, key |-> "", max |-> 0]

\* The tasks of the event loop and what each holds: op, the tool it runs
\* ("none": no call); pc, the I/O operation it is about to do; dish, dir, id:
\* its arguments; ids, fetched: recipe_ids and the recipe_info of each;
\* info: recipes_info; map: recipe_index; kind, rec: what it returned; saved,
\* indexed: it wrote the collection file / the index file in the save block.
Tasks == {"t1", "t2"}
IdleTask ==
  [op |-> "none", pc |-> "idle", dish |-> <<>>, dir |-> <<>>, id |-> 0,
   ids |-> <<>>, fetched |-> NoData, info |-> NoData, map |-> NoData,
   kind |-> "", rec |-> NoRecord, saved |-> FALSE, indexed |-> FALSE]
NoTasks == [t \in Tasks |-> IdleTask]

SearchRecipesCall(dish_name, max_results, resp, order) ==
  \E r \in {SearchRecipes(dish_name, max_results, resp, index, coll, storage, order)} :
     /\ coll' = [coll EXCEPT ![r.dir] = r.file]
     /\ index' = r.index
     /\ last' = [NoCall EXCEPT !.op = "search", !.dir = r.dir, !.kind = r.kind,
                               !.ids = r.ids, !.fetched = r.fetched,
                               !.saved = r.saved, !.wrote = r.indexed,
                               !.rebuilds = IF r.rebuilt THEN 1 ELSE 0,
                               !.remote = resp.kind]
     /\ UNCHANGED <<storage, others>>

\* The same call, with max_results and the ids of the remote answer kept.
SearchRecipesAsked(dish_name, max_results, resp, order) ==
  \E r \in {SearchRecipes(dish_name, max_results, resp, index, coll, storage, order)} :
     /\ coll' = [coll EXCEPT ![r.dir] = r.file]
     /\ index' = r.index
     /\ last' = [NoCall EXCEPT !.op = "search", !.dir = r.dir, !.kind = r.kind,
                               !.ids = r.ids, !.fetched = r.fetched,
                               !.saved = r.saved, !.wrote = r.indexed,
                               !.rebuilds = IF r.rebuilt THEN 1 ELSE 0,
                               !.remote = resp.kind, !.max = max_results,
                               !.given = [i \in DOMAIN resp.meals |-> resp.meals[i].idMeal]]
     /\ UNCHANGED <<storage, others>>

GetRecipeDetailsCall(recipe_id, order1, order2) ==
  \E r \in {GetRecipeDetails(recipe_id, index, coll, storage, order1, order2)} :
     /\ index' = r.index
     /\ last' = [NoCall EXCEPT !.op = "details", !.id = recipe_id, !.kind = r.kind,
                               !.rec = r.rec, !.rebuilds = r.rebuilds, !.wrote = r.wrote]
     /\ UNCHANGED <<coll, storage, others>>

BuildRecipeIndexCall(order) ==
  /\ last' = [NoCall EXCEPT !.op = "build", !.kind = "ok", !.rebuilds = 1,
                            !.map = BuildRecipeIndex(coll, order)]
  /\ UNCHANGED <<coll, index, storage, others>>

LoadRecipeIndexCall(order) ==
  \E r \in {LoadRecipeIndex(index, coll, IndexWritable(storage), order)} :
     /\ index' = r.file
     /\ last' = [NoCall EXCEPT !.op = "load",
                               !.kind = IF r.raised THEN "raised" ELSE "ok",
                               !.map = r.index, !.wrote = r.wrote,
                               !.rebuilds = IF r.rebuilt THEN 1 ELSE 0]
     /\ UNCHANGED <<coll, storage, others>>

\* create_meal_plan: the gathered get_recipe_details tasks, then the plan file.
CreateMealPlanCall(recipe_ids, plan_name, order1, order2, w, torn) ==
  \E details \in {GatherDetails(recipe_ids, index, coll, storage, order1, order2)} :
  \E r \in {CreateMealPlan(recipe_ids, plan_name, details, index, storage,
                           plans[PlanSafe(plan_name)], w, torn)} :
     /\ plans' = [plans EXCEPT ![r.plan] = r.file]
     /\ index' = r.index
     /\ last' = [NoCall EXCEPT !.op = "plan", !.kind = r.kind, !.plan = r.plan,
                               !.given = recipe_ids, !.saved = (r.kind = "created"),
                               !.wrote = (r.index # index)]
     /\ UNCHANGED <<coll, storage, letters, tasks>>

SearchByFirstLetterCall(letter, max_results, resp) ==
  \E r \in {SearchByFirstLetter(letter, max_results, resp, storage, letters)} :
     /\ letters' = IF r.wrote THEN [letters EXCEPT ![r.key] = r.file] ELSE letters
     /\ last' = [NoCall EXCEPT !.op = "letter", !.kind = r.kind, !.ids = r.ids,
                               !.key = r.key, !.saved = r.wrote, !.given = letter,
                               !.remote = IF BadLetter(letter) THEN "" ELSE resp.kind]
     /\ UNCHANGED <<coll, index, storage, plans, tasks>>

GetRandomRecipeCall(resp) ==
  \E r \in {GetRandomRecipe(resp)} :
     /\ last' = [NoCall EXCEPT !.op = "random", !.kind = r.kind, !.id = r.id,
                               !.rec = r.rec, !.remote = resp.kind]
     /\ UNCHANGED <<coll, index, storage, plans, letters, tasks>>

\* Out-of-band changes of the files (another process, the operator, the disk).
OutOfBand == [NoCall EXCEPT !.op = "env"]
RemoveCollection(d) ==
  /\ Exists(coll[d])
  /\ coll' = [coll EXCEPT ![d] = AbsentFile]
  /\ last' = OutOfBand /\ UNCHANGED <<index, storage, others>>
DamageCollection(d) ==
  /\ Exists(coll[d]) /\ coll[d] # CorruptFile
  /\ coll' = [coll EXCEPT ![d] = CorruptFile]
  /\ last' = OutOfBand /\ UNCHANGED <<index, storage, others>>
LockCollection(d) ==
  /\ Exists(coll[d]) /\ coll[d] # UnreadableFile
  /\ coll' = [coll EXCEPT ![d] = UnreadableFile]
  /\ last' = OutOfBand /\ UNCHANGED <<index, storage, others>>
RemoveIndex ==
  /\ Exists(index)
  /\ index' = AbsentFile
  /\ last' = OutOfBand /\ UNCHANGED <<coll, storage, others>>
DamageIndex ==
  /\ index # CorruptFile
  /\ index' = CorruptFile
  /\ last' = OutOfBand /\ UNCHANGED <<coll, storage, others>>
LockIndex ==
  /\ index # UnreadableFile
  /\ index' = UnreadableFile
  /\ last' = OutOfBand /\ UNCHANGED <<coll, storage, others>>
SetStorage(st) ==
  /\ st # storage
  /\ storage' = st
  /\ last' = OutOfBand /\ UNCHANGED <<coll, index, others>>

\* iterdir() is read only where _build_recipe_index runs: the order is an
\* input of the calls that rebuild.
LoadOrders(idx, c) ==
  IF idx.kind \in {"absent", "corrupt"} THEN ScanOrders(c) ELSE {<<>>}
StaleOrders(idx, c) ==
  IF idx.kind = "json" /\ \E id \in DOMAIN idx.data : ~Exists(c[idx.data[id]])
  THEN ScanOrders(c) ELSE {<<>>}

\* ------------------------------------------------- runs from a fresh install
\* RECIPES_DIR.mkdir(exist_ok=True) at import made an empty recipes directory;
\* then MaxSteps steps.
Init ==
  /\ coll = [d \in Dirs |-> AbsentFile]
  /\ index = AbsentFile
  /\ storage = "rw"
  /\ last = NoCall
  /\ steps = 0
  /\ plans = [p \in PlanFiles |-> AbsentPlan]
  /\ letters = [l \in LetterKeys |-> AbsentSummary]
  /\ tasks = NoTasks

Step == steps < MaxSteps /\ steps' = steps + 1

\* Tool calls, with the storage failing or recovering between them: the files
\* are those the tools wrote.
Next ==
  \/ \E n \in DishNames :
       \E orders \in {LoadOrders(index, [coll EXCEPT ![DishSafe(n)] = JsonFile(NoData)])} :
         \E m \in MaxResultsArgs, resp \in Responses, order \in orders :
           Step /\ SearchRecipesCall(n, m, resp, order)
  \/ \E id \in RecipeIds :
       \E order1 \in LoadOrders(index, coll), order2 \in StaleOrders(index, coll) :
         Step /\ GetRecipeDetailsCall(id, order1, order2)
  \/ \E st \in StorageModes : Step /\ SetStorage(st)

Spec == Init /\ [][Next]_vars

\* The same with out-of-band changes of the files.
NextEnv ==
  \/ \E n \in DishNames :
       \E orders \in {LoadOrders(index, [coll EXCEPT ![DishSafe(n)] = JsonFile(NoData)])} :
         \E m \in MaxResultsArgs, resp \in Responses, order \in orders :
           Step /\ SearchRecipesCall(n, m, resp, order)
  \/ \E id \in RecipeIds :
       \E order1 \in LoadOrders(index, coll), order2 \in StaleOrders(index, coll) :
         Step /\ GetRecipeDetailsCall(id, order1, order2)
  \/ \E st \in StorageModes : Step /\ SetStorage(st)
  \/ \E d \in Dirs : Step /\ RemoveCollection(d)
  \/ \E d \in Dirs : Step /\ DamageCollection(d)
  \/ \E d \in Dirs : Step /\ LockCollection(d)
  \/ Step /\ RemoveIndex
  \/ Step /\ DamageIndex
  \/ Step /\ LockIndex

SpecEnv == Init /\ [][NextEnv]_vars

\* ---------------------------------------- one call on any persisted state
\* RECIPES_DIR.mkdir(exist_ok=True) found a recipes directory left by earlier
\* runs: any collection files, any index file, any storage mode (each such state
\* is reached from the fresh install by searches and out-of-band changes).
\* Then one call of the index functions or of get_recipe_details.
Records(id) == { [name |-> e, cuisine |-> e, category |-> e] : e \in Editions }
RecordMaps ==
  UNION { { f \in [S -> UNION { Records(id) : id \in S }] : \A id \in S : f[id] \in Records(id) } :
          S \in SUBSET RecipeIds }
LocationMaps == UNION { [S -> Dirs] : S \in SUBSET RecipeIds }
CollectionFiles ==
  {AbsentFile, CorruptFile, UnreadableFile} \cup { JsonFile(f) : f \in RecordMaps }
IndexFiles ==
  {AbsentFile, CorruptFile, UnreadableFile} \cup { JsonFile(f) : f \in LocationMaps }

InitStored ==
  /\ coll \in [Dirs -> CollectionFiles]
  /\ index \in IndexFiles
  /\ storage \in StorageModes
  /\ last = NoCall
  /\ steps = 0
  /\ plans = [p \in PlanFiles |-> AbsentPlan]
  /\ letters = [l \in LetterKeys |-> AbsentSummary]
  /\ tasks = NoTasks

Once == steps = 0 /\ steps' = 1

NextStored ==
  \/ \E order \in ScanOrders(coll) : Once /\ BuildRecipeIndexCall(order)
  \/ \E order \in LoadOrders(index, coll) : Once /\ LoadRecipeIndexCall(order)
  \/ \E id \in RecipeIds :
       \E order1 \in LoadOrders(index, coll), order2 \in StaleOrders(index, coll) :
         Once /\ GetRecipeDetailsCall(id, order1, order2)

SpecStored == InitStored /\ [][NextStored]_vars

\* ------------------------------ one create_meal_plan on any persisted state
\* The collection files earlier runs left: damaged, or the recipes of one
\* edition for some of the ids; any index file; any storage mode.
EditionFiles ==
  {AbsentFile, CorruptFile, UnreadableFile}
  \cup { JsonFile([id \in S |-> [name |-> e, cuisine |-> e, category |-> e]]) :
           S \in SUBSET RecipeIds, e \in Editions }
InitPlans ==
  /\ coll \in [Dirs -> EditionFiles]
  /\ index \in IndexFiles
  /\ storage \in StorageModes
  /\ last = NoCall
  /\ steps = 0
  /\ plans = [p \in PlanFiles |-> AbsentPlan]
  /\ letters = [l \in LetterKeys |-> AbsentSummary]
  /\ tasks = NoTasks

\* What the gathered tasks of create_meal_plan can meet: a directory order
\* for each, the task that writes the index last, a torn write or none (the
\* last two matter when the tasks rebuild and can meet different orders).
TaskOrders(recipe_ids, S) == [DOMAIN recipe_ids -> S]
Rebuilders(recipe_ids, orders) ==
  IF Cardinality(orders) > 1 THEN DOMAIN recipe_ids ELSE {}
LastWriters(recipe_ids, orders) ==
  IF Rebuilders(recipe_ids, orders) = {} THEN {Len(recipe_ids)}
  ELSE Rebuilders(recipe_ids, orders)
TornWrites(recipe_ids, orders) ==
  IF Cardinality(Rebuilders(recipe_ids, orders)) > 1 THEN BOOLEAN ELSE {FALSE}

NextPlans ==
  \E orders1 \in {LoadOrders(index, coll)}, orders2 \in {StaleOrders(index, coll)} :
    \E recipe_ids \in RecipeIdLists, plan_name \in PlanNames :
      \E order1 \in TaskOrders(recipe_ids, orders1),
         order2 \in TaskOrders(recipe_ids, orders2),
         w \in LastWriters(recipe_ids, orders1),
         torn \in TornWrites(recipe_ids, orders1) :
        Once /\ CreateMealPlanCall(recipe_ids, plan_name, order1, order2, w, torn)

SpecPlans == InitPlans /\ [][NextPlans]_vars

\* ------------------------------------------------ tool calls run as tasks
\* The event loop runs one task at a time and switches at an await: each
\* action below is one I/O operation of a task together with the code that
\* runs after it up to the next await.  aiofiles.open(.., "w") truncates the
\* file; the text arrives when the file is closed.  _build_recipe_index is
\* taken as one operation (iterdir and the reads of the collection files).
\* Before the calls arrive a collection file may be removed out of band (the
\* index is then stale).
TaskDishNames == DishNames \cup { <<"a">> }

\* Two ids of a mapping, the same values: g holds everything f holds.
Extends(g, f) == DOMAIN f \subseteq DOMAIN g /\ \A k \in DOMAIN f : g[k] = f[k]
\* The file after a task writes the text of mine at offset 0 and closes: if
\* another task wrote a text since this task truncated the file and that text
\* is not a part of mine, the longer of the two decides whether its tail stays
\* behind mine (a text json.loads rejects).
WritesTorn(cur, mine) == {JsonFile(mine), CorruptFile}
Writes(cur, mine) ==
  IF cur.kind = "json" /\ ~Extends(mine, cur.data)
  THEN {JsonFile(mine), CorruptFile} ELSE {JsonFile(mine)}

Frame == UNCHANGED <<storage, last, steps, plans, letters>>
Done(task, kind) == [task EXCEPT !.pc = "done", !.kind = kind]
\* _load_recipe_index starts: if RECIPE_INDEX_FILE.exists()
LoadEntry(idx) == IF Exists(idx) THEN "lread" ELSE "build"

\* search_recipes up to its first file operation: the remote answer, the
\* slice, dish_safe, mkdir, file_path.exists().
SearchFetch(t, dish_name, max_results, resp) ==
  /\ tasks[t].pc = "idle"
  /\ LET d == DishSafe(dish_name)
         meals == PySlice(resp.meals, max_results)
         me == [IdleTask EXCEPT !.op = "search", !.dish = dish_name, !.dir = d]
         got == [me EXCEPT !.ids = [i \in DOMAIN meals |-> meals[i].idMeal],
                           !.fetched = StoreMeals(NoData, meals)]
     IN tasks' = [tasks EXCEPT ![t] =
          CASE resp.kind = "request_error" -> Done(me, "fetch_error")
            [] resp.kind = "status_error" -> Done(me, "search_error")
            [] resp.meals = <<>> -> Done(me, "no_recipes")
            [] ~Exists(coll[d]) /\ ~CollWritable(storage) -> Done(me, "mkdir_error")
            [] Exists(coll[d]) -> [got EXCEPT !.pc = "read"]
            [] OTHER -> [got EXCEPT !.pc = "open", !.info = got.fetched]]
  /\ UNCHANGED <<coll, index>> /\ Frame

\* The read of the existing collection file, then the loop over meals.
SearchRead(t) ==
  /\ tasks[t].pc = "read"
  /\ LET me == tasks[t]
         f == coll[me.dir]
     IN tasks' = [tasks EXCEPT ![t] =
          IF f.kind = "unreadable" THEN Done(me, "search_error")
          ELSE [me EXCEPT !.pc = "open",
                          !.info = Update(ExistingRecipes(f), me.fetched)]]
  /\ UNCHANGED <<coll, index>> /\ Frame

\* aiofiles.open(file_path, "w")
SearchOpen(t) ==
  /\ tasks[t].pc = "open"
  /\ IF CollWritable(storage)
     THEN /\ coll' = [coll EXCEPT ![tasks[t].dir] = CorruptFile]
          /\ tasks' = [tasks EXCEPT ![t].pc = "write"]
     ELSE /\ tasks' = [tasks EXCEPT ![t] = Done(tasks[t], "ids")]
          /\ UNCHANGED coll
  /\ UNCHANGED index /\ Frame

\* json_file.write(json.dumps(recipes_info)) and the close; _load_recipe_index
\* begins.
SearchWrite(t) ==
  /\ tasks[t].pc = "write"
  /\ \E f \in Writes(coll[tasks[t].dir], tasks[t].info) :
       coll' = [coll EXCEPT ![tasks[t].dir] = f]
  /\ tasks' = [tasks EXCEPT ![t].pc = LoadEntry(index), ![t].saved = TRUE]
  /\ UNCHANGED index /\ Frame

\* The task after _load_recipe_index returned recipe_index: search_recipes
\* adds its ids and goes to write the index file; get_recipe_details looks
\* the id up and checks file_path.exists().
AfterLoad(me, recipe_index, c) ==
  IF me.op = "search"
  THEN [me EXCEPT !.pc = "iopen", !.map = IndexWith(recipe_index, me.ids, me.dir)]
  ELSE IF me.id \notin DOMAIN recipe_index THEN Done(me, "no_saved")
  ELSE IF IndexedFileMissing(c[recipe_index[me.id]])
       THEN [me EXCEPT !.pc = "rebuild", !.map = recipe_index]
       ELSE [me EXCEPT !.pc = "dread", !.map = recipe_index]

\* _load_recipe_index: the read of the index file.
LoadRead(t) ==
  /\ tasks[t].pc = "lread"
  /\ LET me == tasks[t]
     IN tasks' = [tasks EXCEPT ![t] =
          CASE index.kind = "json" -> AfterLoad(me, index.data, coll)
            [] index.kind = "unreadable" ->
                 Done(me, IF me.op = "search" THEN "ids" ELSE "error")
            [] OTHER -> [me EXCEPT !.pc = "build"]]
  /\ UNCHANGED <<coll, index>> /\ Frame

\* _load_recipe_index: index = await _build_recipe_index()
LoadBuild(t, order) ==
  /\ tasks[t].pc = "build"
  /\ LET me == tasks[t]
         built == BuildRecipeIndex(coll, order)
     IN tasks' = [tasks EXCEPT ![t] =
          IF IndexWritable(storage) THEN [me EXCEPT !.pc = "bopen", !.map = built]
          ELSE AfterLoad(me, built, coll)]
  /\ UNCHANGED <<coll, index>> /\ Frame

\* _load_recipe_index: aiofiles.open(RECIPE_INDEX_FILE, "w")
LoadOpen(t) ==
  /\ tasks[t].pc = "bopen"
  /\ index' = CorruptFile
  /\ tasks' = [tasks EXCEPT ![t].pc = "bwrite"]
  /\ UNCHANGED coll /\ Frame

\* _load_recipe_index: f.write(json.dumps(index)), the close, return index
LoadWrite(t) ==
  /\ tasks[t].pc = "bwrite"
  /\ index' \in Writes(index, tasks[t].map)
  /\ tasks' = [tasks EXCEPT ![t] = AfterLoad(tasks[t], tasks[t].map, coll)]
  /\ UNCHANGED coll /\ Frame

\* search_recipes: aiofiles.open(RECIPE_INDEX_FILE, "w")
IndexOpen(t) ==
  /\ tasks[t].pc = "iopen"
  /\ IF IndexWritable(storage)
     THEN /\ index' = CorruptFile
          /\ tasks' = [tasks EXCEPT ![t].pc = "iwrite"]
     ELSE /\ tasks' = [tasks EXCEPT ![t] = Done(tasks[t], "ids")]
          /\ UNCHANGED index
  /\ UNCHANGED coll /\ Frame

\* search_recipes: index_file.write(json.dumps(recipe_index)), the close,
\* return recipe_ids
IndexWrite(t) ==
  /\ tasks[t].pc = "iwrite"
  /\ index' \in Writes(index, tasks[t].map)
  /\ tasks' = [tasks EXCEPT ![t] = [Done(tasks[t], "ids") EXCEPT !.indexed = TRUE]]
  /\ UNCHANGED coll /\ Frame

\* get_recipe_details up to its first file operation.
DetailsStart(t, recipe_id) ==
  /\ tasks[t].pc = "idle"
  /\ tasks' = [tasks EXCEPT ![t] =
       [IdleTask EXCEPT !.op = "details", !.id = recipe_id, !.pc = LoadEntry(index)]]
  /\ UNCHANGED <<coll, index>> /\ Frame

\* get_recipe_details: the index is stale, recipe_index = await
\* _build_recipe_index()
DetailsRebuild(t, order) ==
  /\ tasks[t].pc = "rebuild"
  /\ LET me == tasks[t]
         built == BuildRecipeIndex(coll, order)
     IN tasks' = [tasks EXCEPT ![t] =
          IF me.id \notin DOMAIN built THEN Done(me, "no_saved")
          ELSE [me EXCEPT !.pc = "dread", !.map = built]]
  /\ UNCHANGED <<coll, index>> /\ Frame

\* get_recipe_details: the read of the collection file and the lookup.
DetailsRead(t) ==
  /\ tasks[t].pc = "dread"
  /\ LET me == tasks[t]
         f == coll[me.map[me.id]]
     IN tasks' = [tasks EXCEPT ![t] =
          CASE f.kind # "json" -> Done(me, "error")
            [] me.id \in DOMAIN f.data ->
                 [Done(me, "record") EXCEPT !.rec = f.data[me.id]]
            [] OTHER -> Done(me, "not_in_file")]
  /\ UNCHANGED <<coll, index>> /\ Frame

\* The recipes directory when the tasks start: no collection file, or the
\* one earlier searches saved when the recipes were first published, with the
\* index they left or none.  The tasks' searches get the revised recipes, one
\* recipe per answer at most.
FirstRecord == [name |-> "first", cuisine |-> "first", category |-> "first"]
SavedFiles == {AbsentFile, JsonFile([id \in RecipeIds |-> FirstRecord])}
TaskResponses ==
  { resp \in Responses :
      /\ Len(resp.meals) <= 1
      /\ \A i \in DOMAIN resp.meals : resp.meals[i].strMeal = "revised" }
InitTasks ==
  /\ coll \in [Dirs -> SavedFiles]
  /\ index \in {AbsentFile}
               \cup { JsonFile(BuildRecipeIndex(coll, order)) : order \in ScanOrders(coll) }
  /\ storage = "rw"
  /\ last = NoCall
  /\ steps = 0
  /\ plans = [p \in PlanFiles |-> AbsentPlan]
  /\ letters = [l \in LetterKeys |-> AbsentSummary]
  /\ tasks = NoTasks

NextTasks ==
  \/ \E t \in Tasks, n \in TaskDishNames, m \in MaxResultsArgs, resp \in TaskResponses :
       SearchFetch(t, n, m, resp)
  \/ \E t \in Tasks : SearchRead(t)
  \/ \E t \in Tasks : SearchOpen(t)
  \/ \E t \in Tasks : SearchWrite(t)
  \/ \E t \in Tasks : LoadRead(t)
  \/ \E t \in Tasks, order \in ScanOrders(coll) : LoadBuild(t, order)
  \/ \E t \in Tasks : LoadOpen(t)
  \/ \E t \in Tasks : LoadWrite(t)
  \/ \E t \in Tasks : IndexOpen(t)
  \/ \E t \in Tasks : IndexWrite(t)
  \/ \E t \in Tasks, id \in RecipeIds : DetailsStart(t, id)
  \/ \E t \in Tasks, order \in ScanOrders(coll) : DetailsRebuild(t, order)
  \/ \E t \in Tasks : DetailsRead(t)
  \/ \E d \in Dirs : tasks = NoTasks /\ RemoveCollection(d) /\ UNCHANGED steps

SpecTasks == InitTasks /\ [][NextTasks]_vars

\* ------------------------------------- one call of any tool, storage failing
\* The recipes directory as earlier runs left it: each collection file
\* missing, damaged or whole; the index file missing, damaged, empty or naming
\* one directory for every recipe; any storage mode.  Then one tool call; the
\* remote source of search_recipes answers with any number of recipes.
ToolFiles ==
  {AbsentFile, CorruptFile, UnreadableFile, JsonFile([id \in RecipeIds |-> FirstRecord])}
ToolIndexFiles ==
  {AbsentFile, CorruptFile, UnreadableFile, JsonFile(NoData)}
  \cup { JsonFile([id \in RecipeIds |-> d]) : d \in Dirs }
InitTools ==
  /\ coll \in [Dirs -> ToolFiles]
  /\ index \in ToolIndexFiles
  /\ storage \in StorageModes
  /\ last = NoCall
  /\ steps = 0
  /\ plans = [p \in PlanFiles |-> AbsentPlan]
  /\ letters = [l \in LetterKeys |-> AbsentSummary]
  /\ tasks = NoTasks

LongIdSeqs ==
  { s \in UNION { [1..n -> RecipeIds] : n \in 0..NumIds } :
      \A i, j \in DOMAIN s : i # j => s[i] # s[j] }
LongResponses ==
  { [kind |-> "request_error", meals |-> <<>>],
    [kind |-> "status_error", meals |-> <<>>] }
  \cup { [kind |-> "ok", meals |-> [i \in DOMAIN s |-> Meal(s[i], e)]] :
           s \in LongIdSeqs, e \in Editions }

NextTools ==
  \/ \E n \in DishNames :
       \E orders \in {LoadOrders(index, [coll EXCEPT ![DishSafe(n)] = JsonFile(NoData)])} :
         \E m \in MaxResultsArgs, resp \in LongResponses, order \in orders :
           Once /\ SearchRecipesAsked(n, m, resp, order)
  \/ \E id \in RecipeIds :
       \E order1 \in LoadOrders(index, coll), order2 \in StaleOrders(index, coll) :
         Once /\ GetRecipeDetailsCall(id, order1, order2)
  \/ \E orders1 \in {LoadOrders(index, coll)}, orders2 \in {StaleOrders(index, coll)} :
       \E recipe_ids \in RecipeIdLists, plan_name \in PlanNames :
         \E order1 \in TaskOrders(recipe_ids, orders1),
            order2 \in TaskOrders(recipe_ids, orders2),
            w \in LastWriters(recipe_ids, orders1),
            torn \in TornWrites(recipe_ids, orders1) :
           Once /\ CreateMealPlanCall(recipe_ids, plan_name, order1, order2, w, torn)
  \/ \E letter \in LetterArgs, m \in MaxResultsArgs, resp \in Responses :
       Once /\ SearchByFirstLetterCall(letter, m, resp)
  \/ \E resp \in Responses : Once /\ GetRandomRecipeCall(resp)

SpecTools == InitTools /\ [][NextTools]_vars

\* ==================================================================== claims
\* The collections that hold id: a readable, parseable file with the key id.
HoldingDirs(c, id) == { d \in Dirs : c[d].kind = "json" /\ id \in DOMAIN c[d].data }
\* The directory of S whose name sorts last.
LastDir(S) == CHOOSE d \in S : \A e \in S : e = d \/ LexLess(e, d)
\* The ids a search returned.
Returned(call) == { call.ids[i] : i \in DOMAIN call.ids }
\* What get_recipe_details(id) returns in the current state, for every
\* directory enumeration order.
DetailsOutcomes(id) ==
  { GetRecipeDetails(id, index, coll, storage, order1, order2) :
      order1 \in LoadOrders(index, coll), order2 \in StaleOrders(index, coll) }

\* ------------------------------------------------------------------------ C1
\* C1 (as claimed): after search_recipes has returned a list of recipe ids,
\* get_recipe_details of each returned id returns the record of that recipe,
\* in every state reached through tool calls.
C1_ReturnedIdsRetrievable ==
  (last.op = "search" /\ last.kind = "ids") =>
    \A id \in Returned(last) : \A r \in DetailsOutcomes(id) :
      r.kind = "record" /\ r.rec = last.fetched[id]

\* C1 (amended): the same, when the call wrote the collection file and the
\* index file; the record returned is the one the search stored.
C1_SavedIdsRetrievable ==
  (last.op = "search" /\ last.kind = "ids" /\ last.saved /\ last.wrote) =>
    \A id \in Returned(last) : \A r \in DetailsOutcomes(id) :
      /\ r.kind = "record"
      /\ r.rec = coll[last.dir].data[id]
      /\ r.rec = last.fetched[id]

\* A search returned ids into a collection that already held another recipe,
\* saved them, and each is retrievable.
C1_Witness ==
  /\ last.op = "search" /\ last.kind = "ids" /\ last.saved /\ last.wrote
  /\ Returned(last) # {}
  /\ DOMAIN coll[last.dir].data # Returned(last)
  /\ \A id \in Returned(last) : \E r \in DetailsOutcomes(id) : r.kind = "record"

\* ------------------------------------------------------------------------ C2
\* C2: the mapping _build_recipe_index returns has an entry for every recipe
\* id of every collection file that parses, and every entry names a file that
\* holds the id; a corrupt or unreadable file adds nothing and stops nothing.
C2_RebuildComplete ==
  last.op = "build" =>
    /\ \A d \in Dirs :
         coll[d].kind = "json" => DOMAIN coll[d].data \subseteq DOMAIN last.map
    /\ \A id \in DOMAIN last.map : last.map[id] \in HoldingDirs(coll, id)

\* A rebuild over one collection that does not parse and one that holds
\* recipes.
C2_Witness ==
  /\ last.op = "build"
  /\ \E d \in Dirs : coll[d].kind \in {"corrupt", "unreadable"}
  /\ DOMAIN last.map # {}

\* ------------------------------------------------------------------------ C3
\* C3 (as claimed): whenever _load_recipe_index returns, the location of every
\* recipe id held by exactly one collection is the one a fresh rebuild gives.
C3_LoadAgreesWithRebuild ==
  (last.op = "load" /\ last.kind = "ok") =>
    \A id \in RecipeIds :
      Cardinality(HoldingDirs(coll, id)) = 1 =>
        /\ id \in DOMAIN last.map
        /\ \A order \in ScanOrders(coll) :
             last.map[id] = BuildRecipeIndex(coll, order)[id]

\* C3 (amended): the same for a load that found the index file absent or not
\* parseable (and therefore rebuilt); a load that found a parseable index file
\* returns the persisted mapping as it is.
C3_RebuiltLoadAgreesWithRebuild ==
  [][/\ (last'.op = "load" /\ index.kind \in {"absent", "corrupt"}) =>
          \A id \in RecipeIds :
            Cardinality(HoldingDirs(coll, id)) = 1 =>
              /\ id \in DOMAIN last'.map
              /\ \A order \in ScanOrders(coll) :
                   last'.map[id] = BuildRecipeIndex(coll, order)[id]
     /\ (last'.op = "load" /\ index.kind = "json") => last'.map = index.data]_vars

\* A load that rebuilt, with a recipe held by exactly one of two collections
\* and another held by both.
C3_Witness ==
  /\ last.op = "load" /\ last.rebuilds = 1
  /\ \E id \in RecipeIds : Cardinality(HoldingDirs(coll, id)) = 1
  /\ \E id \in RecipeIds : Cardinality(HoldingDirs(coll, id)) = 2

\* ------------------------------------------------------------------------ C4
\* C4: a rebuild maps a recipe id held by several collections to the one whose
\* directory name sorts last, whatever order iterdir() yields.
C4_LastNameWins ==
  last.op = "build" =>
    \A id \in DOMAIN last.map : last.map[id] = LastDir(HoldingDirs(coll, id))

\* ------------------------------------------------------------------------ C5
\* The indexed location of id is invalid: the file is gone, or it parses and
\* lacks id.
InvalidLocation(file, id) ==
  ~Exists(file) \/ (file.kind = "json" /\ id \notin DOMAIN file.data)

\* C5: get_recipe_details(id) on an index entry whose location is invalid (in
\* either way) rebuilds and returns the record of a collection that holds id,
\* and "No saved information" only if none does.
C5_RepairsInvalidLocation ==
  (/\ last.op = "details" /\ index.kind = "json"
   /\ last.id \in DOMAIN index.data
   /\ InvalidLocation(coll[index.data[last.id]], last.id)) =>
    /\ last.rebuilds >= 1
    /\ IF HoldingDirs(coll, last.id) # {}
       THEN /\ last.kind = "record"
            /\ \E d \in HoldingDirs(coll, last.id) : last.rec = coll[d].data[last.id]
       ELSE last.kind = "no_saved"

\* ------------------------------------------------------------------------ C6
\* C6: when the file the index gives for id is gone and no collection holds
\* id, get_recipe_details(id) returns "No saved information found".
C6_DeletedFileNotFound ==
  (/\ last.op = "details" /\ index.kind = "json"
   /\ last.id \in DOMAIN index.data
   /\ ~Exists(coll[index.data[last.id]])
   /\ HoldingDirs(coll, last.id) = {}) =>
    last.kind = "no_saved"

\* The indexed file is gone, the other collection is there without the id,
\* and the call has answered after one rebuild.
C6_Witness ==
  /\ last.op = "details" /\ index.kind = "json"
  /\ last.id \in DOMAIN index.data
  /\ ~Exists(coll[index.data[last.id]])
  /\ HoldingDirs(coll, last.id) = {}
  /\ \E d \in Dirs : coll[d].kind = "json" /\ DOMAIN coll[d].data # {}
  /\ last.kind = "no_saved" /\ last.rebuilds = 1

\* ------------------------------------------------------------------------ C7
\* C7: with a parseable index file that lacks id, get_recipe_details(id)
\* returns "No saved information found", scans no collection file and leaves
\* the index file as it is; with an index file that load rebuilt, a miss is
\* answered after that one rebuild.
C7_MissWithoutRebuild ==
  [][/\ (/\ last'.op = "details" /\ index.kind = "json"
         /\ last'.id \notin DOMAIN index.data) =>
          /\ last'.kind = "no_saved"
          /\ last'.rebuilds = 0
          /\ ~last'.wrote
          /\ index' = index
     /\ (/\ last'.op = "details" /\ index.kind \in {"absent", "corrupt"}
         /\ HoldingDirs(coll, last'.id) = {}) =>
          /\ last'.kind = "no_saved"
          /\ last'.rebuilds = 1]_vars

\* A miss on an id that a collection file holds: not found, nothing scanned.
C7_Witness ==
  /\ last.op = "details" /\ index.kind = "json"
  /\ last.id \notin DOMAIN index.data
  /\ HoldingDirs(coll, last.id) # {}
  /\ last.kind = "no_saved" /\ last.rebuilds = 0

\* ------------------------------------------------------------------------ C8
\* C8: _load_recipe_index never fails its caller: it returns the persisted
\* mapping of a parseable index file and a rebuilt mapping otherwise (index
\* file absent, corrupt or unreadable, or not writable).
C8_LoadNeverFails ==
  last.op = "load" =>
    /\ last.kind = "ok"
    /\ last.rebuilds = 0 => (index.kind = "json" /\ last.map = index.data)
    /\ last.rebuilds = 1 =>
         \E order \in ScanOrders(coll) : last.map = BuildRecipeIndex(coll, order)

\* ------------------------------------------------------------------------ C9
\* A corrupt or unreadable collection file taken as one that holds no entry.
Emptied(c) ==
  [d \in Dirs |-> IF c[d].kind \in {"corrupt", "unreadable"}
                  THEN JsonFile(NoData) ELSE c[d]]

\* C9: corrupt or unreadable files are never reported as an error: a rebuild
\* gives the mapping it gives with those files empty, and
\* get_recipe_details gives a record or a not-found result.
C9_DamagedFilesAsEmpty ==
  /\ last.op = "build" =>
       \E order \in ScanOrders(Emptied(coll)) :
         last.map = BuildRecipeIndex(Emptied(coll), order)
  /\ last.op = "details" => last.kind # "error"

\* ----------------------------------------------------------------------- C10
\* C10: a search that saves leaves in the collection file of dish_safe every
\* id the file held, together with every id returned; the record of an id it
\* held is the old one or the newly fetched one.
C10_GrowsByUnion ==
  [][(last'.op = "search" /\ last'.saved) =>
       \E old \in {IF coll[last'.dir].kind = "json"
                   THEN coll[last'.dir].data ELSE NoData} :
         /\ coll'[last'.dir].kind = "json"
         /\ DOMAIN coll'[last'.dir].data = (DOMAIN old) \cup Returned(last')
         /\ \A id \in DOMAIN old :
              \/ coll'[last'.dir].data[id] = old[id]
              \/ id \in Returned(last')
                 /\ coll'[last'.dir].data[id] = last'.fetched[id]
         /\ \A id \in Returned(last') \ DOMAIN old :
              coll'[last'.dir].data[id] = last'.fetched[id]
         /\ \A d \in Dirs \ {last'.dir} : coll'[d] = coll[d]]_vars

\* A search has returned a recipe and saved it into a collection that holds
\* another recipe as well.
C10_Witness ==
  /\ last.op = "search" /\ last.saved
  /\ Returned(last) # {}
  /\ DOMAIN coll[last.dir].data # Returned(last)

\* ----------------------------------------------------------------------- C11
\* Task t ran search_recipes to its end and returned recipe ids.
Searched(t) ==
  tasks[t].op = "search" /\ tasks[t].pc = "done" /\ tasks[t].kind = "ids"
\* The collection file of task t parses and holds what t fetched.
HoldsOwn(t) ==
  /\ coll[tasks[t].dir].kind = "json"
  /\ \A id \in Returned(tasks[t]) :
       /\ id \in DOMAIN coll[tasks[t].dir].data
       /\ coll[tasks[t].dir].data[id] = tasks[t].fetched[id]

Resolves(id) == \E r \in DetailsOutcomes(id) : r.kind = "record"
\* The summary is the one of a record get_recipe_details(id) returns.
SummaryOfRecord(summary) ==
  \E r \in DetailsOutcomes(summary.id) :
    /\ r.kind = "record"
    /\ summary.name = r.rec.name
    /\ summary.cuisine = r.rec.cuisine
    /\ summary.category = r.rec.category

\* C12: the plan create_meal_plan saves lists, in the order given, a summary
\* (id, name, cuisine, category) of each given id that get_recipe_details
\* resolves to a stored record, nothing for the other ids, and total_recipes
\* is the length of the list.
C12_PlanHoldsResolvedIds ==
  [][(last'.op = "plan" /\ last'.kind = "created") =>
       \E p \in {plans'[last'.plan]} :
         /\ p.kind = "json"
         /\ [i \in DOMAIN p.data.recipes |-> p.data.recipes[i].id]
              = SelectSeq(last'.given, Resolves)
         /\ \A i \in DOMAIN p.data.recipes : SummaryOfRecord(p.data.recipes[i])
         /\ p.data.total_recipes = Len(p.data.recipes)]_vars

\* A plan made of one id that resolves and one that does not (its collection
\* file holds it no more): the plan has the one recipe.
C12_Witness ==
  /\ last.op = "plan" /\ last.kind = "created"
  /\ Len(last.given) = 2
  /\ Resolves(last.given[1]) /\ ~Resolves(last.given[2])
  /\ \E r \in DetailsOutcomes(last.given[2]) : r.kind = "not_in_file"
  /\ plans[last.plan].data.total_recipes = 1
  /\ plans[last.plan].data.recipes[1].id = last.given[1]

\* ----------------------------------------------------------------------- C13
\* What a tool returns when the remote source fails: a descriptive error.
RemoteErrors == {"fetch_error", "search_error"}
ToolOps == {"search", "details", "plan", "letter", "random"}

\* C13: every tool call ends by returning a value, whatever the remote source
\* and the storage do; when the remote source fails the value is an error
\* text, never the "No recipes found" of an empty result, and the empty
\* result is reported only for an answer that arrived.
C13_ToolsAlwaysReturn ==
  last.op \in ToolOps =>
    /\ last.kind \notin {"", "raised"}
    /\ last.remote \in {"request_error", "status_error"} =>
         (last.kind \in RemoteErrors /\ last.kind # "no_recipes")
    /\ last.kind = "no_recipes" => last.remote = "ok"

\* search_by_first_letter has answered a failed remote call with an error
\* text while nothing under recipes/ can be written.
C13_Witness ==
  /\ last.op = "letter" /\ last.remote = "request_error"
  /\ last.kind = "fetch_error"
  /\ storage = "ro"

\* ----------------------------------------------------------------------- C14
\* C14: when search_recipes got recipes from the remote source, passed mkdir
\* and the read of the existing file, and the save then fails, it returns the
\* ids of the fetched recipes and no diagnostic: if the collection file
\* cannot be written nothing is written; if only the index file cannot be
\* written (storage, or an index file that cannot be read) the collection
\* file is written and stays, the index file is as before.
C14_SaveFailureReturnsIds ==
  [][(/\ last'.op = "search" /\ last'.remote = "ok" /\ last'.kind # "no_recipes"
      /\ Exists(coll[last'.dir]) \/ CollWritable(storage)
      /\ coll[last'.dir].kind # "unreadable"
      /\ storage # "rw" \/ index.kind = "unreadable") =>
       /\ last'.kind = "ids"
       /\ Returned(last') = DOMAIN last'.fetched
       /\ index' = index
       /\ ~CollWritable(storage) => (~last'.saved /\ coll' = coll)
       /\ CollWritable(storage) =>
            /\ last'.saved /\ ~last'.wrote
            /\ coll'[last'.dir].kind = "json"
            /\ \A id \in Returned(last') :
                 /\ id \in DOMAIN coll'[last'.dir].data
                 /\ coll'[last'.dir].data[id] = last'.fetched[id]]_vars

\* A search has returned a recipe it wrote into its collection file while the
\* index file, which lacks the recipe, could not be written.
C14_Witness ==
  /\ last.op = "search" /\ last.kind = "ids" /\ storage = "index_ro"
  /\ last.saved /\ ~last.wrote
  /\ Returned(last) # {}
  /\ Returned(last) \subseteq DOMAIN coll[last.dir].data
  /\ index.kind = "json"
  /\ \E id \in Returned(last) : id \notin DOMAIN index.data

\* ----------------------------------------------------------------------- C15
\* C15: for a remote answer of n >= 1 recipes and max_results >= 0, a
\* search_recipes call that mkdir and the read of the existing file let
\* through returns the first min(max_results, n) ids of the answer, in the
\* order of the answer; with working storage it saves and indexes; what it
\* saves are the records of exactly those recipes beside what the file held,
\* and the index entries it adds are those of exactly those ids.
C15_FirstMinReturnedAndStored ==
  [][(/\ last'.op = "search" /\ last'.remote = "ok" /\ last'.given # <<>>
      /\ last'.max >= 0
      /\ Exists(coll[last'.dir]) \/ CollWritable(storage)
      /\ coll[last'.dir].kind # "unreadable") =>
       \E old \in {ExistingRecipes(coll[last'.dir])} :
         /\ last'.kind = "ids"
         /\ Len(last'.ids) = Min(last'.max, Len(last'.given))
         /\ last'.ids = SubSeq(last'.given, 1, Len(last'.ids))
         /\ (storage = "rw" /\ index.kind # "unreadable") =>
              (last'.saved /\ last'.wrote)
         /\ last'.saved =>
              /\ coll'[last'.dir].kind = "json"
              /\ DOMAIN coll'[last'.dir].data = DOMAIN old \cup Returned(last')
              /\ \A id \in DOMAIN coll'[last'.dir].data :
                   coll'[last'.dir].data[id] =
                     IF id \in Returned(last') THEN last'.fetched[id] ELSE old[id]
         /\ ~last'.saved => coll' = coll
         /\ last'.wrote =>
              /\ index'.kind = "json"
              /\ \A id \in Returned(last') :
                   id \in DOMAIN index'.data /\ index'.data[id] = last'.dir
              /\ \A id \in DOMAIN index'.data \ Returned(last') :
                   IF index.kind = "json"
                   THEN id \in DOMAIN index.data /\ index'.data[id] = index.data[id]
                   ELSE index'.data[id] \in HoldingDirs(coll', id)
         /\ ~last'.wrote => index' = index]_vars

\* The remote source gave two recipes, max_results was 1: the first id is
\* returned, saved and indexed; the second is neither in the file nor in the
\* index.
C15_Witness ==
  /\ last.op = "search" /\ last.kind = "ids" /\ last.saved /\ last.wrote
  /\ Len(last.given) = 2 /\ last.max = 1
  /\ last.ids = <<last.given[1]>>
  /\ last.given[2] \notin DOMAIN coll[last.dir].data
  /\ last.given[2] \notin DOMAIN index.data

\* ----------------------------------------------------------------------- C16
\* No task is in the middle of a call, and no file was changed out of band.
Quiescent == \A t \in Tasks : tasks[t].pc \in {"idle", "done"}
ToolsOnly == last.op # "env"

\* C16: after two interleaved search_recipes calls for the same collection
\* have both saved and returned, the collection file parses and holds what
\* each call read from it together with what each call fetched.
C16_NoLostUpdate ==
  \A t, u \in Tasks :
    (/\ ToolsOnly /\ t # u /\ Searched(t) /\ Searched(u)
     /\ tasks[t].saved /\ tasks[u].saved
     /\ tasks[t].dir = tasks[u].dir) =>
      /\ coll[tasks[t].dir].kind = "json"
      /\ DOMAIN tasks[t].info \subseteq DOMAIN coll[tasks[t].dir].data
      /\ \A id \in Returned(tasks[t]) :
           coll[tasks[t].dir].data[id] = tasks[t].fetched[id]

\* ----------------------------------------------------------------------- C17
\* C17: after a search_recipes call has run beside another call that reads
\* or writes the index file (a search for another directory, or
\* get_recipe_details) and all have returned, the index file parses and has
\* an entry for every id a search returned and saved.
C17_IndexUpdateNotLost ==
  \A t, u \in Tasks :
    (/\ ToolsOnly /\ t # u /\ Searched(t) /\ tasks[t].saved
     /\ tasks[u].pc = "done"
     /\ tasks[u].op = "search" => tasks[u].dir # tasks[t].dir) =>
      /\ index.kind = "json"
      /\ Returned(tasks[t]) \subseteq DOMAIN index.data

\* ----------------------------------------------------------------------- C18
\* C18: whenever no call is running (and no file was changed out of band),
\* every entry id -> directory of a parseable index file names a collection
\* file that parses and holds id, and no get_recipe_details has answered
\* "Recipe <id> not found in <file>".
C18_IndexSound ==
  (ToolsOnly /\ Quiescent) =>
    /\ index.kind = "json" =>
         \A id \in DOMAIN index.data : index.data[id] \in HoldingDirs(coll, id)
    /\ \A t \in Tasks : tasks[t].kind # "not_in_file"

\* ----------------------------------------------------------------------- C19
\* C19: get_recipe_details writes no collection file, and with an index file
\* that is present and parses it leaves the index file as it is and writes
\* nothing, also when it met a stale entry and rebuilt the index in memory:
\* the index file then still holds the stale entry.
C19_DetailsReadOnly ==
  [][last'.op = "details" =>
       /\ coll' = coll
       /\ plans' = plans /\ letters' = letters
       /\ index.kind = "json" =>
            /\ index' = index
            /\ ~last'.wrote
            /\ (/\ last'.id \in DOMAIN index.data
                /\ ~Exists(coll[index.data[last'.id]])) =>
                 /\ last'.rebuilds = 1
                 /\ last'.id \in DOMAIN index'.data
                 /\ ~Exists(coll'[index'.data[last'.id]])]_vars

\* A stale entry was met, the rebuild found the recipe in another collection
\* and returned it, and the index file still names the missing file.
C19_Witness ==
  /\ last.op = "details" /\ last.kind = "record" /\ last.rebuilds = 1
  /\ ~last.wrote
  /\ index.kind = "json" /\ last.id \in DOMAIN index.data
  /\ ~Exists(coll[index.data[last.id]])
  /\ HoldingDirs(coll, last.id) # {}

\* ----------------------------------------------------------------------- C20
\* C20: search_by_first_letter and get_random_recipe leave the index file,
\* every collection file and every meal plan as they are, so every
\* get_recipe_details answers as before; get_random_recipe leaves the letter
\* summaries too; search_by_first_letter changes at most the summary of its
\* own lower-cased letter, which then lists the ids it returned, and changes
\* nothing when its argument is not one alphabetic character.
C20_LetterAndRandomWriteNoRecipes ==
  [][last'.op \in {"letter", "random"} =>
       /\ coll' = coll /\ index' = index /\ plans' = plans
       /\ \A id \in RecipeIds : DetailsOutcomes(id)' = DetailsOutcomes(id)
       /\ last'.op = "random" => letters' = letters
       /\ last'.op = "letter" =>
            /\ (Len(last'.given) # 1 \/ ~IsAlpha(last'.given[1])) =>
                 /\ letters' = letters
                 /\ last'.kind = "bad_letter"
            /\ ~last'.saved => letters' = letters
            /\ last'.saved =>
                 /\ \A k \in DOMAIN letters :
                      k # LowerChar(last'.given[1]) => letters'[k] = letters[k]
                 /\ letters'[LowerChar(last'.given[1])].kind = "json"
                 /\ letters'[LowerChar(last'.given[1])].data.recipe_ids = last'.ids]_vars

\* search_by_first_letter("b") returned an id and wrote its summary, and the
\* id is in no index entry and no collection file: get_recipe_details does
\* not find it.
C20_Witness ==
  /\ last.op = "letter" /\ last.kind = "ids" /\ last.saved
  /\ last.given = <<"b">>
  /\ letters["b"].kind = "json" /\ letters["a"].kind = "absent"
  /\ \E i \in DOMAIN last.ids :
       /\ index.kind = "json" /\ last.ids[i] \notin DOMAIN index.data
       /\ HoldingDirs(coll, last.ids[i]) = {}
       /\ \A r \in DetailsOutcomes(last.ids[i]) : r.kind = "no_saved"

====
